---- MODULE Spec2Model ----
(***************************************************************************)
(* Model of the javals language-server backend (src/main.rs): the three    *)
(* DashMaps of Backend, the did_open / did_change / did_close handlers,    *)
(* Backend::on_change (parse + pre-order indexing pass) and                *)
(* Backend::goto_definition (scope-chain resolution).                      *)
(*                                                                         *)
(* The tree-sitter parser is an external collaborator.  Documents are      *)
(* drawn from a small set of Java texts whose syntax trees (node kinds,    *)
(* parents, spans) are written out below as tree-sitter-java produces      *)
(* them.  Node::id() is the address of the node inside the tree's          *)
(* allocation: unique among trees that are alive at the same time, and     *)
(* reusable once a tree has been dropped.                                  *)
(***************************************************************************)
EXTENDS Integers, Sequences, FiniteSets, TLC

\* ------------------------------------------------------------------ bounds
MaxEdits == 3
NumSlots == 3
IdStride == 29

URIs == {"file:///a", "file:///b"}
Slots == 1..NumSlots

\* ------------------------------------------------------------------ points
Pt(r, c) == [row |-> r, column |-> c]

PointLE(a, b) == a.row < b.row \/ (a.row = b.row /\ a.column <= b.column)

PointLT(a, b) == a.row < b.row \/ (a.row = b.row /\ a.column < b.column)

\* fn to_position: the usize -> u32 casts keep every value below 2^32, and
\* rows and columns of the documents here are far below that
to_position(point) == [line |-> point.row, character |-> point.column]

\* fn to_point: u32 -> usize casts
to_point(position) == [row |-> position.line, column |-> position.character]

Pos(l, c) == [line |-> l, character |-> c]

\* ------------------------------------------------------------ syntax trees
N(k, p, t, sr, sc, er, ec) ==
    [kind |-> k, parent |-> p, text |-> t, named |-> TRUE,
     start |-> Pt(sr, sc), end |-> Pt(er, ec)]

A(k, p, t, sr, sc, er, ec) ==
    [kind |-> k, parent |-> p, text |-> t, named |-> FALSE,
     start |-> Pt(sr, sc), end |-> Pt(er, ec)]

\* class Test {
\*   int value;
\*   int compute(int value) {
\*     return value;
\*   }
\* }
ShadowTree == <<
    N("program",             0,  "",        0, 0,  5, 1),
    N("class_declaration",   1,  "",        0, 0,  5, 1),
    N("identifier",          2,  "Test",    0, 6,  0, 10),
    N("class_body",          2,  "",        0, 11, 5, 1),
    N("field_declaration",   4,  "",        1, 2,  1, 12),
    N("integral_type",       5,  "int",     1, 2,  1, 5),
    N("variable_declarator", 5,  "",        1, 6,  1, 11),
    N("identifier",          7,  "value",   1, 6,  1, 11),
    N("method_declaration",  4,  "",        2, 2,  4, 3),
    N("integral_type",       9,  "int",     2, 2,  2, 5),
    N("identifier",          9,  "compute", 2, 6,  2, 13),
    N("formal_parameters",   9,  "",        2, 13, 2, 24),
    N("formal_parameter",    12, "",        2, 14, 2, 23),
    N("integral_type",       13, "int",     2, 14, 2, 17),
    N("identifier",          13, "value",   2, 18, 2, 23),
    N("block",               9,  "",        2, 25, 4, 3),
    N("return_statement",    16, "",        3, 4,  3, 17),
    A("return",              17, "return",  3, 4,  3, 10),
    N("identifier",          17, "value",   3, 11, 3, 16) >>

\* class A { void f(int a, String b) { } void value(double value) { f(x, value); } }
CallsTree == <<
    N("program",              0,  "",       0, 0,  0, 81),
    N("class_declaration",    1,  "",       0, 0,  0, 81),
    N("identifier",           2,  "A",      0, 6,  0, 7),
    N("class_body",           2,  "",       0, 8,  0, 81),
    N("method_declaration",   4,  "",       0, 10, 0, 37),
    N("void_type",            5,  "void",   0, 10, 0, 14),
    N("identifier",           5,  "f",      0, 15, 0, 16),
    N("formal_parameters",    5,  "",       0, 16, 0, 33),
    N("formal_parameter",     8,  "",       0, 17, 0, 22),
    N("integral_type",        9,  "int",    0, 17, 0, 20),
    N("identifier",           9,  "a",      0, 21, 0, 22),
    N("formal_parameter",     8,  "",       0, 24, 0, 32),
    N("type_identifier",      12, "String", 0, 24, 0, 30),
    N("identifier",           12, "b",      0, 31, 0, 32),
    N("block",                5,  "",       0, 34, 0, 37),
    N("method_declaration",   4,  "",       0, 38, 0, 79),
    N("void_type",            16, "void",   0, 38, 0, 42),
    N("identifier",           16, "value",  0, 43, 0, 48),
    N("formal_parameters",    16, "",       0, 48, 0, 62),
    N("formal_parameter",     19, "",       0, 49, 0, 61),
    N("floating_point_type",  20, "double", 0, 49, 0, 55),
    N("identifier",           20, "value",  0, 56, 0, 61),
    N("block",                16, "",       0, 63, 0, 79),
    N("expression_statement", 23, "",       0, 65, 0, 77),
    N("method_invocation",    24, "",       0, 65, 0, 76),
    N("identifier",           25, "f",      0, 65, 0, 66),
    N("argument_list",        25, "",       0, 66, 0, 76),
    N("identifier",           27, "x",      0, 67, 0, 68),
    N("identifier",           27, "value",  0, 70, 0, 75) >>

\* class C { int y; C(int p) { } }
CtorTree == <<
    N("program",                 0,  "",    0, 0,  0, 31),
    N("class_declaration",       1,  "",    0, 0,  0, 31),
    N("identifier",              2,  "C",   0, 6,  0, 7),
    N("class_body",              2,  "",    0, 8,  0, 31),
    N("field_declaration",       4,  "",    0, 10, 0, 16),
    N("integral_type",           5,  "int", 0, 10, 0, 13),
    N("variable_declarator",     5,  "",    0, 14, 0, 15),
    N("identifier",              7,  "y",   0, 14, 0, 15),
    N("constructor_declaration", 4,  "",    0, 17, 0, 29),
    N("identifier",              9,  "C",   0, 17, 0, 18),
    N("formal_parameters",       9,  "",    0, 18, 0, 25),
    N("formal_parameter",        11, "",    0, 19, 0, 24),
    N("integral_type",           12, "int", 0, 19, 0, 22),
    N("identifier",              12, "p",   0, 23, 0, 24),
    N("constructor_body",        9,  "",    0, 26, 0, 29) >>

\* enum E { A; int x; }
EnumTree == <<
    N("program",                0,  "",    0, 0,  0, 20),
    N("enum_declaration",       1,  "",    0, 0,  0, 20),
    N("identifier",             2,  "E",   0, 5,  0, 6),
    N("enum_body",              2,  "",    0, 7,  0, 20),
    N("enum_constant",          4,  "",    0, 9,  0, 10),
    N("identifier",             5,  "A",   0, 9,  0, 10),
    N("enum_body_declarations", 4,  "",    0, 10, 0, 18),
    N("field_declaration",      7,  "",    0, 12, 0, 18),
    N("integral_type",          8,  "int", 0, 12, 0, 15),
    N("variable_declarator",    8,  "",    0, 16, 0, 17),
    N("identifier",             10, "x",   0, 16, 0, 17) >>

Texts == {"Shadow", "Calls", "Ctor", "Enum"}

\* the tree the parser returns for a text
NodesOf(text) ==
    CASE text = "Shadow" -> ShadowTree
      [] text = "Calls"  -> CallsTree
      [] text = "Ctor"   -> CtorTree
      [] text = "Enum"   -> EnumTree

\* positions the client asks about
QueryPositions ==
    { Pos(3, 11), Pos(0, 65), Pos(0, 67), Pos(0, 70), Pos(0, 6), Pos(3, 5), Pos(9, 0) }


\* ------------------------------------------------------------------- state
VARIABLES
    document_map,         \* Backend.document_map: uri -> text
    parsed_document_map,  \* Backend.parsed_document_map: uri -> Tree
    token_location_map,   \* Backend.token_location_map: token -> Vec<TokenLocation>
    pending,              \* did_open handlers suspended at client.log_message().await
    panicked,             \* "no", or the handler whose panic ended the process
    response,             \* the answer of goto_definition on its way to the client
    client,               \* the editor's view: per uri, open state and last text sent
    edits                 \* number of did_open / did_change notifications sent

vars == <<document_map, parsed_document_map, token_location_map, pending,
          panicked, response, client, edits>>

Has(map, key) == key \in DOMAIN map

\* DashMap::insert
Insert(map, key, value) == (key :> value) @@ map

\* ------------------------------------------------------------ tree queries
\* Node::id(): the node's address, unique among live trees
NodeId(tree, i) == tree.slot * IdStride + i

Indices(nodes) == [i \in 1..Len(nodes) |-> i]

\* Node::named_children, in source order
NamedChildren(nodes, p) ==
    SelectSeq(Indices(nodes), LAMBDA i : nodes[i].parent = p /\ nodes[i].named)

\* Node::next_named_sibling; 0 is None
NextNamedSibling(nodes, i) ==
    LET later == {j \in 1..Len(nodes) :
                     j > i /\ nodes[j].parent = nodes[i].parent /\ nodes[j].named}
    IN  IF later = {} THEN 0 ELSE CHOOSE j \in later : \A k \in later : j <= k

IsTypeKind(kind) == kind \in {"integral_type", "type_identifier"}

RECURSIVE Concat(_)
Concat(seqs) == IF seqs = << >> THEN << >> ELSE Head(seqs) \o Concat(Tail(seqs))

\* main.rs 241-258: the parameter types of a method, in declaration order
ParameterTypes(nodes, params_node) ==
    IF nodes[params_node].kind # "formal_parameters" THEN << >>
    ELSE LET ps == SelectSeq(NamedChildren(nodes, params_node),
                             LAMBDA p : nodes[p].kind = "formal_parameter")
             TypesOf(p) == SelectSeq(NamedChildren(nodes, p),
                                     LAMBDA c : IsTypeKind(nodes[c].kind))
         IN  Concat([k \in 1..Len(ps) |->
                       [j \in 1..Len(TypesOf(ps[k])) |-> nodes[TypesOf(ps[k])[j]].text]])

\* main.rs 262-271: find_map over the parameter's named children
ParameterType(nodes, parent) ==
    LET ts == SelectSeq(NamedChildren(nodes, parent),
                        LAMBDA c : IsTypeKind(nodes[c].kind))
    IN  IF ts = << >> THEN [some |-> FALSE, type |-> ""]
        ELSE [some |-> TRUE, type |-> nodes[ts[1]].text]

Skip == [tag |-> "skip"]
Panic == [tag |-> "panic"]
Entry(token_type, scope) == [tag |-> "entry", token_type |-> token_type, scope |-> scope]

\* a declarator arm that scopes the field to its field_declaration
ClassifyDeclaratorFieldScope(nodes, parent) ==
    LET field_declaration_node == nodes[parent].parent
    IN  IF field_declaration_node = 0 THEN Panic
        ELSE IF nodes[field_declaration_node].kind = "field_declaration"
             THEN Entry([kind |-> "MemberVariable"], field_declaration_node)
        ELSE Skip

\* main.rs 222-239
ClassifyDeclarator(nodes, parent) ==
    LET field_declaration_node == nodes[parent].parent
    IN  IF field_declaration_node = 0 THEN Panic
        ELSE CASE nodes[field_declaration_node].kind = "field_declaration" ->
                    LET class_body_node == nodes[field_declaration_node].parent
                    IN  IF class_body_node = 0 THEN Panic
                        ELSE IF nodes[class_body_node].kind # "class_body" THEN Panic
                        ELSE Entry([kind |-> "MemberVariable"], class_body_node)
               [] nodes[field_declaration_node].kind = "local_variable_declaration" ->
                    Skip
               [] OTHER -> Skip

\* main.rs 261-281
ClassifyParameter(nodes, parent) ==
    LET formal_parameters_node == nodes[parent].parent
    IN  IF formal_parameters_node = 0 THEN Panic
        ELSE LET method_declaration_node == nodes[formal_parameters_node].parent
             IN  IF method_declaration_node = 0 THEN Panic
                 ELSE IF nodes[method_declaration_node].kind # "method_declaration"
                      THEN Panic
                 ELSE Entry([kind |-> "ParameterName",
                             type |-> ParameterType(nodes, parent)],
                            method_declaration_node)

\* a classification that records every identifier, uses included
ClassifyEveryIdentifier(nodes, i) ==
    IF nodes[i].parent = 0 THEN Panic
    ELSE Entry([kind |-> "ClassName"], nodes[i].parent)

\* main.rs 216-286: (token_type, scope node) of identifier node i, a skip, or a panic
Classify(nodes, i) ==
    LET parent == nodes[i].parent
    IN  IF parent = 0 THEN Panic
        ELSE CASE nodes[parent].kind = "class_declaration" ->
                    Entry([kind |-> "ClassName"], parent)
               [] nodes[parent].kind = "variable_declarator" ->
                    ClassifyDeclarator(nodes, parent)
               [] nodes[parent].kind = "method_declaration" ->
                    LET params_node == NextNamedSibling(nodes, i)
                    IN  IF params_node = 0 THEN Panic
                        ELSE Entry([kind |-> "MethodName",
                                    parameter_types |-> ParameterTypes(nodes, params_node)],
                                   parent)
               [] nodes[parent].kind = "formal_parameter" ->
                    ClassifyParameter(nodes, parent)
               [] OTHER -> Skip

\* main.rs 287-293
TokenLocation(uri, tree, nodes, i, c) ==
    [uri |-> uri,
     start_position |-> nodes[i].start,
     end_position |-> nodes[i].end,
     token_type |-> c.token_type,
     scope_id |-> NodeId(tree, c.scope)]

\* a push that starts a new Vec for the token every time
PushLocationFresh(table, token, location) == Insert(table, token, <<location>>)

\* main.rs 294-297
PushLocation(table, token, location) ==
    LET t == IF Has(table, token) THEN table ELSE Insert(table, token, << >>)
    IN  [t EXCEPT ![token] = Append(@, location)]

\* main.rs 209-298: the loop over the pre-order nodes from node i on
RECURSIVE IndexNodes(_, _, _, _, _)
IndexNodes(uri, tree, nodes, i, table) ==
    IF i > Len(nodes) THEN [table |-> table, panicked |-> FALSE]
    ELSE IF nodes[i].kind # "identifier" THEN IndexNodes(uri, tree, nodes, i + 1, table)
    ELSE LET c == Classify(nodes, i)
         IN  CASE c.tag = "panic" -> [table |-> table, panicked |-> TRUE]
               [] c.tag = "skip"  -> IndexNodes(uri, tree, nodes, i + 1, table)
               [] OTHER ->
                    IndexNodes(uri, tree, nodes, i + 1,
                               PushLocation(table, nodes[i].text,
                                            TokenLocation(uri, tree, nodes, i, c)))

\* ------------------------------------------------------------------ parser
LiveSlots(trees) == {trees[u].slot : u \in DOMAIN trees}

\* the slots some indexed tree has occupied, read off the recorded scope ids
IndexedSlots(table) ==
    {s \in Slots : \E token \in DOMAIN table : \E k \in 1..Len(table[token]) :
                      table[token][k].scope_id \div IdStride = s}

\* main.rs 201-207: Parser::parse(text, old tree).  The new tree is allocated
\* while every stored tree, the old one included, is still alive, so its
\* nodes get addresses no live tree uses: those of a tree dropped earlier, or
\* addresses never used before (all alike, so the lowest stands for them).
\* When the text is the old tree's text the parser may hand back the old
\* tree's nodes.
ParseSlots(trees, table, uri, text) ==
    LET free == Slots \ LiveSlots(trees)
        recycled == free \cap IndexedSlots(table)
        untouched == free \ IndexedSlots(table)
    IN  recycled
          \cup (IF untouched = {} THEN {}
                ELSE {CHOOSE s \in untouched : \A t \in untouched : s <= t})
          \cup (IF Has(trees, uri) /\ trees[uri].text = text
                THEN {trees[uri].slot} ELSE {})

\* --------------------------------------------------------- goto_definition
Children(nodes, p) == {j \in 1..Len(nodes) : nodes[j].parent = p}

\* ts_node_named_descendant_for_point_range below `node`: step into the first
\* child that ends after the point, as long as it starts at or before it
RECURSIVE Descend(_, _, _, _)
Descend(nodes, node, last, point) ==
    LET after == {j \in Children(nodes, node) : PointLT(point, nodes[j].end)}
    IN  IF after = {} THEN last
        ELSE LET c == CHOOSE j \in after : \A k \in after : j <= k
             IN  IF PointLT(point, nodes[c].start) THEN last
                 ELSE Descend(nodes, c, IF nodes[c].named THEN c ELSE last, point)

Contains(node, point) == PointLE(node.start, point) /\ PointLE(point, node.end)

\* main.rs 133-136: Option<Node>, 0 is None.  For a point inside the root the
\* smallest named node around it; the call's type leaves open what a point
\* outside every node gives, None or the root itself.
named_descendant_for_point_range(nodes, point) ==
    IF Contains(nodes[1], point) THEN {Descend(nodes, 1, 1, point)} ELSE {0, 1}

\* main.rs 141: the slice of the stored text under the node
utf8_text(tree, i, source_text) ==
    IF source_text = tree.text THEN NodesOf(tree.text)[i].text ELSE "<slice>"

\* main.rs 161-164: fold into a HashMap, a later location replacing an earlier one
\* a fold in which the first candidate of a scope_id is kept
ScopeMapFirst(locations) ==
    [s \in {locations[k].scope_id : k \in 1..Len(locations)} |->
        LET first == CHOOSE k \in 1..Len(locations) :
                        /\ locations[k].scope_id = s
                        /\ \A j \in 1..Len(locations) : locations[j].scope_id = s => k <= j
        IN  [start |-> locations[first].start_position,
             end |-> locations[first].end_position]]

ScopeMap(locations) ==
    [s \in {locations[k].scope_id : k \in 1..Len(locations)} |->
        LET last == CHOOSE k \in 1..Len(locations) :
                        /\ locations[k].scope_id = s
                        /\ \A j \in 1..Len(locations) : locations[j].scope_id = s => j <= k
        IN  [start |-> locations[last].start_position,
             end |-> locations[last].end_position]]

Fault == [tag |-> "fault"]
NoResult == [tag |-> "none"]
Location(uri, start, end) == [tag |-> "location", uri |-> uri, start |-> start, end |-> end]

\* a walk that keeps the outermost matching ancestor instead of the nearest
RECURSIVE WalkOutermost(_, _, _, _, _)
WalkOutermost(uri, tree, nodes, current_node, map) ==
    LET parent_node == nodes[current_node].parent
    IN  IF parent_node = 0 THEN NoResult
        ELSE LET outer == WalkOutermost(uri, tree, nodes, parent_node, map)
             IN  IF outer # NoResult THEN outer
                 ELSE IF NodeId(tree, parent_node) \in DOMAIN map
                      THEN Location(uri,
                                    to_position(map[NodeId(tree, parent_node)].start),
                                    to_position(map[NodeId(tree, parent_node)].end))
                 ELSE NoResult

\* main.rs 165-186: the walk up the ancestors of current_node
RECURSIVE Walk(_, _, _, _, _)
Walk(uri, tree, nodes, current_node, map) ==
    LET parent_node == nodes[current_node].parent
    IN  IF parent_node = 0 THEN NoResult
        ELSE IF NodeId(tree, parent_node) \in DOMAIN map
             THEN Location(uri,
                           to_position(map[NodeId(tree, parent_node)].start),
                           to_position(map[NodeId(tree, parent_node)].end))
        ELSE Walk(uri, tree, nodes, parent_node, map)

\* main.rs 138-186, from the node found at the position on
ResolveFrom(docs, trees, table, uri, base_node) ==
    LET tree == trees[uri]
        nodes == NodesOf(tree.text)
        token == utf8_text(tree, base_node, docs[uri])
    IN  IF base_node = 0 THEN Fault
        ELSE IF nodes[base_node].kind # "identifier" THEN NoResult
        ELSE IF ~Has(table, token) THEN NoResult
        ELSE IF nodes[base_node].parent = 0 THEN Fault
        ELSE Walk(uri, tree, nodes, base_node, ScopeMap(table[token]))

\* main.rs 127-187: what goto_definition answers in a state of the three maps
goto_definition(docs, trees, table, uri, position) ==
    IF ~Has(trees, uri) \/ ~Has(docs, uri) THEN {Fault}
    ELSE {ResolveFrom(docs, trees, table, uri, b) :
            b \in named_descendant_for_point_range(NodesOf(trees[uri].text),
                                                   to_point(position))}

\* ----------------------------------------------------------------- actions
Idle == [tag |-> "idle"]
Reply(uri, position, result) ==
    [tag |-> "reply", uri |-> uri, position |-> position, result |-> result]

Init ==
    /\ document_map = << >>
    /\ parsed_document_map = << >>
    /\ token_location_map = << >>
    /\ pending = {}
    /\ panicked = "no"
    /\ response = Idle
    /\ client = [u \in URIs |-> [state |-> "never", version |-> 0, text |-> ""]]
    /\ edits = 0

\* main.rs 200-302
on_change(uri, text) ==
    \E slot \in ParseSlots(parsed_document_map, token_location_map, uri, text) :
        LET tree == [text |-> text, slot |-> slot]
            pass == IndexNodes(uri, tree, NodesOf(text), 1, token_location_map)
        IN  /\ token_location_map' = pass.table
            /\ IF pass.panicked
               THEN /\ panicked' = "on_change"
                    /\ UNCHANGED <<document_map, parsed_document_map>>
               ELSE /\ document_map' = Insert(document_map, uri, text)
                    /\ parsed_document_map' = Insert(parsed_document_map, uri, tree)
                    /\ UNCHANGED panicked

Sent(uri, text) ==
    [client EXCEPT ![uri] = [state |-> "open", version |-> @.version + 1, text |-> text]]

\* main.rs 90-94: did_open up to its first await
DidOpen(uri, text) ==
    /\ panicked = "no"
    /\ edits < MaxEdits
    /\ client[uri].state # "open"
    /\ client' = Sent(uri, text)
    /\ pending' = pending \cup
                    {[uri |-> uri, text |-> text, version |-> client[uri].version + 1]}
    /\ edits' = edits + 1
    /\ UNCHANGED <<document_map, parsed_document_map, token_location_map, panicked, response>>

\* main.rs 95-100: did_open after the await
DidOpenResume(task) ==
    /\ panicked = "no"
    /\ task \in pending
    /\ on_change(task.uri, task.text)
    /\ pending' = pending \ {task}
    /\ UNCHANGED <<response, client, edits>>

\* main.rs 103-111
DidChange(uri, text) ==
    /\ panicked = "no"
    /\ edits < MaxEdits
    /\ client[uri].state = "open"
    /\ client' = Sent(uri, text)
    /\ edits' = edits + 1
    /\ on_change(uri, text)
    /\ UNCHANGED <<pending, response>>

\* main.rs 120-125
DidClose(uri) ==
    /\ panicked = "no"
    /\ client[uri].state = "open"
    /\ client' = [client EXCEPT ![uri].state = "closed"]
    /\ UNCHANGED <<document_map, parsed_document_map, token_location_map,
                   pending, panicked, response, edits>>

\* a query that drops the candidates of the token it looked up
GotoDefinitionEvicting(uri, position) ==
    /\ panicked = "no"
    /\ response = Idle
    /\ \E result \in goto_definition(document_map, parsed_document_map,
                                     token_location_map, uri, position) :
          /\ response' = Reply(uri, position, result)
          /\ panicked' = IF result = Fault THEN "goto_definition" ELSE "no"
          /\ token_location_map' =
                IF result.tag = "location"
                THEN [token \in DOMAIN token_location_map |-> << >>]
                ELSE token_location_map
    /\ UNCHANGED <<document_map, parsed_document_map, pending, client, edits>>

\* main.rs 127-187
GotoDefinition(uri, position) ==
    /\ panicked = "no"
    /\ response = Idle
    /\ \E result \in goto_definition(document_map, parsed_document_map,
                                     token_location_map, uri, position) :
          /\ response' = Reply(uri, position, result)
          /\ panicked' = IF result = Fault THEN "goto_definition" ELSE "no"
    /\ UNCHANGED <<document_map, parsed_document_map, token_location_map,
                   pending, client, edits>>

\* the client takes the answer
ReceiveResponse ==
    /\ panicked = "no"
    /\ response # Idle
    /\ response' = Idle
    /\ UNCHANGED <<document_map, parsed_document_map, token_location_map,
                   pending, panicked, client, edits>>

\* the document notifications: did_open, did_change, did_close
Notifications ==
    \/ \E uri \in URIs, text \in Texts : DidOpen(uri, text)
    \/ \E task \in pending : DidOpenResume(task)
    \/ \E uri \in URIs, text \in Texts : DidChange(uri, text)
    \/ \E uri \in URIs : DidClose(uri)

Next ==
    \/ \E uri \in URIs, text \in Texts : DidOpen(uri, text)
    \/ \E task \in pending : DidOpenResume(task)
    \/ \E uri \in URIs, text \in Texts : DidChange(uri, text)
    \/ \E uri \in URIs : DidClose(uri)
    \/ \E uri \in URIs, position \in QueryPositions : GotoDefinition(uri, position)
    \/ ReceiveResponse

Spec == Init /\ [][Next]_vars

\* the server under notifications alone, no definition request being served
NotificationSpec == Init /\ [][Notifications]_vars

\* ------------------------------------------------------------ observations
\* the TokenLocation entries of one document, per token, in table order
DocEntries(table, uri) ==
    [token \in {t \in DOMAIN table : \E k \in 1..Len(table[t]) : table[t][k].uri = uri} |->
        SelectSeq(table[token], LAMBDA l : l.uri = uri)]

\* what one complete indexing pass over a tree produces
PassEntries(uri, tree) == IndexNodes(uri, tree, NodesOf(tree.text), 1, << >>).table

\* a goto_definition step: the answer appears
Answered == response.tag = "idle" /\ response'.tag = "reply"

\* the node the queried position falls on in the stored tree of uri (0: none)
NodeAt(uri, position) ==
    LET nodes == NodesOf(parsed_document_map[uri].text)
    IN  IF Contains(nodes[1], to_point(position))
        THEN Descend(nodes, 1, 1, to_point(position)) ELSE 0

OpenDocument(uri) ==
    /\ client[uri].state = "open"
    /\ Has(document_map, uri)
    /\ Has(parsed_document_map, uri)

\* the declaring occurrence of each reference occurrence, by Java's scoping
DeclarationOf(text) ==
    CASE text = "Shadow" -> (19 :> 15)
      [] text = "Calls"  -> (26 :> 7) @@ (29 :> 22)
      [] OTHER           -> << >>

\* ------------------------------------------------------------------ claims
\* C1: for every indexed document the Symbol Table holds exactly the entries
\* of that document's latest indexing pass (reindexing replaces, never appends).
C1_ReindexReplaces ==
    panicked = "no" =>
        \A uri \in DOMAIN parsed_document_map :
            DocEntries(token_location_map, uri) = PassEntries(uri, parsed_document_map[uri])

\* C2: once every handler has completed, the stored text and tree of a document
\* are those of the edit with the highest version sent for it.
C2_LatestVersionWins ==
    (panicked = "no" /\ pending = {}) =>
        \A uri \in URIs :
            client[uri].state # "never" =>
                /\ Has(document_map, uri)
                /\ document_map[uri] = client[uri].text
                /\ parsed_document_map[uri].text = client[uri].text

\* C3: after close(uri) the document's text, tree and entries are gone and
\* every definition query against uri returns no result.
C3_ClosePurges ==
    \A uri \in URIs :
        (client[uri].state = "closed" /\ \A task \in pending : task.uri # uri) =>
            /\ ~Has(document_map, uri)
            /\ ~Has(parsed_document_map, uri)
            /\ DocEntries(token_location_map, uri) = << >>
            /\ \A position \in QueryPositions :
                  goto_definition(document_map, parsed_document_map,
                                  token_location_map, uri, position) = {NoResult}

\* C4: a definition query for a uri with no open Document answers no result
\* and does not fault.
C4_QueryWithoutDocument ==
    [][(Answered /\ ~Has(document_map, response'.uri)) =>
          response'.result = NoResult]_vars

C6_ReferenceResolvesToDeclaration ==
    [][(/\ Answered
        /\ OpenDocument(response'.uri)
        /\ NodeAt(response'.uri, response'.position)
              \in DOMAIN DeclarationOf(parsed_document_map[response'.uri].text))
          => LET text == parsed_document_map[response'.uri].text
                 decl == NodesOf(text)[DeclarationOf(text)[NodeAt(response'.uri,
                                                                  response'.position)]]
             IN  response'.result = Location(response'.uri, to_position(decl.start),
                                             to_position(decl.end))]_vars

\* C7: with a field and a parameter both named value, a query at the use of
\* value in the method body answers the parameter declaration, not the field.
C7_ParameterShadowsField ==
    [][(/\ Answered
        /\ OpenDocument(response'.uri)
        /\ parsed_document_map[response'.uri].text = "Shadow"
        /\ NodeAt(response'.uri, response'.position) = 19)
          => response'.result = Location(response'.uri, Pos(2, 18), Pos(2, 23))]_vars

\* C8: indexing never aborts.
C8_IndexingNeverAborts == panicked # "on_change"

\* C9: a change that resends the stored text leaves the document's entries in
\* the Symbol Table as they were.
C9_ReindexIdempotent ==
    [][\A uri \in URIs :
          (/\ OpenDocument(uri)
           /\ edits' = edits + 1
           /\ client'[uri].version = client[uri].version + 1
           /\ client'[uri].text = document_map[uri]
           /\ \A task \in pending : task.uri # uri
           /\ panicked' = "no")
          => DocEntries(token_location_map', uri) = DocEntries(token_location_map, uri)]_vars

\* the step is a handler working on uri
StepOn(uri) ==
    \/ client'[uri] # client[uri]
    \/ \E task \in pending \ pending' : task.uri = uri

\* C10: open, change and close of one document leave the text, tree, entries
\* and definition answers of every other stored document as they were.
C10_OtherDocumentsUntouched ==
    [][\A uri \in URIs : \A other \in DOMAIN document_map \ {uri} :
          StepOn(uri) =>
              /\ Has(document_map', other)
              /\ document_map'[other] = document_map[other]
              /\ parsed_document_map'[other] = parsed_document_map[other]
              /\ DocEntries(token_location_map', other)
                    = DocEntries(token_location_map, other)
              /\ \A position \in QueryPositions :
                    goto_definition(document_map', parsed_document_map',
                                    token_location_map', other, position)
                      = goto_definition(document_map, parsed_document_map,
                                        token_location_map, other, position)]_vars

\* both documents are stored and some token has entries from both
C10_Witness ==
    /\ DOMAIN document_map = URIs
    /\ \E token \in DOMAIN token_location_map :
          {token_location_map[token][k].uri : k \in 1..Len(token_location_map[token])} = URIs

\* ---------------------------------------------------- claims C11 .. C19
\* the node kinds tree-sitter-java gives a primitive or a named type
IsPrimitiveOrNamedType(kind) ==
    kind \in {"integral_type", "floating_point_type", "boolean_type",
              "type_identifier", "scoped_type_identifier", "generic_type"}

\* the type tokens of a method's parameters as the source text declares them
DeclaredParameterTypes(nodes, method) ==
    LET lists == SelectSeq(NamedChildren(nodes, method),
                           LAMBDA c : nodes[c].kind = "formal_parameters")
        ps == IF lists = << >> THEN << >>
              ELSE SelectSeq(NamedChildren(nodes, lists[1]),
                             LAMBDA p : nodes[p].kind = "formal_parameter")
        TypeOf(p) == SelectSeq(NamedChildren(nodes, p),
                               LAMBDA c : IsPrimitiveOrNamedType(nodes[c].kind))
    IN  Concat([k \in 1..Len(ps) |->
                  [j \in 1..Len(TypeOf(ps[k])) |-> nodes[TypeOf(ps[k])[j]].text]])

\* the entries of the table recorded for node i of the stored tree of uri
EntriesFor(uri, i) ==
    LET tree == parsed_document_map[uri]
        node == NodesOf(tree.text)[i]
    IN  IF ~Has(token_location_map, node.text) THEN {}
        ELSE {e \in {token_location_map[node.text][k] :
                        k \in 1..Len(token_location_map[node.text])} :
                 /\ e.uri = uri
                 /\ e.start_position = node.start
                 /\ e.end_position = node.end}

MethodNameNodes(nodes) ==
    {i \in 1..Len(nodes) :
        /\ nodes[i].kind = "identifier"
        /\ nodes[i].parent # 0
        /\ nodes[nodes[i].parent].kind = "method_declaration"}

\* C11: the parameter type list recorded for a MethodName holds the type token
\* of every parameter of primitive or named type, in declaration order.
C11_ParameterTypesInOrder ==
    panicked = "no" =>
        \A uri \in DOMAIN parsed_document_map :
            LET nodes == NodesOf(parsed_document_map[uri].text)
            IN  \A i \in MethodNameNodes(nodes) :
                    \A e \in EntriesFor(uri, i) :
                        e.token_type.kind = "MethodName" =>
                            e.token_type.parameter_types
                                = DeclaredParameterTypes(nodes, nodes[i].parent)

\* the proper ancestors of node n
RECURSIVE AncestorsOf(_, _)
AncestorsOf(nodes, n) ==
    IF nodes[n].parent = 0 THEN {}
    ELSE {nodes[n].parent} \cup AncestorsOf(nodes, nodes[n].parent)

Max(S) == CHOOSE x \in S : \A y \in S : y <= x

\* an answered query on a stored document whose position is on an identifier
OnIdentifier(uri, position) ==
    /\ Has(document_map, uri)
    /\ Has(parsed_document_map, uri)
    /\ document_map[uri] = parsed_document_map[uri].text
    /\ NodeAt(uri, position) # 0
    /\ NodesOf(parsed_document_map[uri].text)[NodeAt(uri, position)].kind = "identifier"

\* the candidates the table holds for the identifier at the position
CandidatesAt(uri, position) ==
    LET token == NodesOf(parsed_document_map[uri].text)[NodeAt(uri, position)].text
    IN  IF Has(token_location_map, token) THEN token_location_map[token] ELSE << >>

\* the proper ancestors of the identifier whose id is some candidate's scope_id
MatchingAncestors(uri, position) ==
    LET tree == parsed_document_map[uri]
        cands == CandidatesAt(uri, position)
    IN  {a \in AncestorsOf(NodesOf(tree.text), NodeAt(uri, position)) :
            \E k \in 1..Len(cands) : cands[k].scope_id = NodeId(tree, a)}

\* in pre-order a nearer ancestor has the larger index: the candidate that is
\* last in the table among those scoped to the nearest matching ancestor
MatchedCandidate(uri, position) ==
    LET cands == CandidatesAt(uri, position)
        scope == NodeId(parsed_document_map[uri], Max(MatchingAncestors(uri, position)))
    IN  cands[Max({k \in 1..Len(cands) : cands[k].scope_id = scope})]

Range(seq) == {seq[k] : k \in 1..Len(seq)}

\* C12: a definition is never taken from a candidate that another tree version
\* than the document's current tree produced.
C12_NoStaleScopeMatch ==
    [][(/\ Answered
        /\ response'.result.tag = "location"
        /\ OnIdentifier(response'.uri, response'.position))
          => LET uri == response'.uri
                 pass == PassEntries(uri, parsed_document_map[uri])
                 matched == MatchedCandidate(uri, response'.position)
                 token == NodesOf(parsed_document_map[uri].text)
                              [NodeAt(uri, response'.position)].text
             IN  Has(pass, token) /\ matched \in Range(pass[token])]_vars

\* C14: resolve answers exactly when some candidate is scoped to a proper
\* ancestor of the queried identifier, and then with the location recorded for
\* the nearest such ancestor; otherwise the result is absent.
C14_NearestAncestorScope ==
    [][(Answered /\ OnIdentifier(response'.uri, response'.position))
          => LET uri == response'.uri
                 position == response'.position
             IN  IF MatchingAncestors(uri, position) = {}
                 THEN response'.result = NoResult
                 ELSE response'.result
                        = Location(uri,
                                   to_position(MatchedCandidate(uri, position).start_position),
                                   to_position(MatchedCandidate(uri, position).end_position))]_vars

\* the use of value in return value; is answered with the parameter although
\* the field's class body is an ancestor too
C14_Witness ==
    /\ response.tag = "reply"
    /\ response.position = Pos(3, 11)
    /\ response.result = Location(response.uri, Pos(2, 18), Pos(2, 23))

\* the candidates sharing the scope_id of the one that matched
SharingScope(uri, position) ==
    LET cands == CandidatesAt(uri, position)
    IN  {k \in 1..Len(cands) :
            cands[k].scope_id = MatchedCandidate(uri, position).scope_id}

\* C15: when several candidates share the matching scope_id, the span answered
\* is that of the one coming last in indexing order.
C15_LastCandidateWins ==
    [][(/\ Answered
        /\ response'.result.tag = "location"
        /\ OnIdentifier(response'.uri, response'.position)
        /\ Cardinality(SharingScope(response'.uri, response'.position)) > 1)
          => LET cands == CandidatesAt(response'.uri, response'.position)
                 last == Max(SharingScope(response'.uri, response'.position))
             IN  /\ response'.result.start = to_position(cands[last].start_position)
                 /\ response'.result.end = to_position(cands[last].end_position)]_vars

\* the use of value in f(x, value): method value and parameter value share the
\* method declaration as scope, the parameter was indexed later
C15_Witness ==
    /\ response.tag = "reply"
    /\ response.position = Pos(0, 70)
    /\ response.result = Location(response.uri, Pos(0, 56), Pos(0, 61))

\* C18: the uri of an answered location is the uri of the document the matched
\* TokenLocation was indexed for.
C18_LocationUriIsCandidateUri ==
    [][(/\ Answered
        /\ response'.result.tag = "location"
        /\ OnIdentifier(response'.uri, response'.position))
          => MatchedCandidate(response'.uri, response'.position).uri
                = response'.result.uri]_vars

\* C13: a query sees one fully applied document version: the text, the tree
\* and the index entries of the queried document all belong to the same version.
C13_QuerySeesOneVersion ==
    [][(Answered /\ Has(document_map, response'.uri))
          => LET uri == response'.uri
             IN  /\ Has(parsed_document_map, uri)
                 /\ parsed_document_map[uri].text = document_map[uri]
                 /\ DocEntries(token_location_map, uri)
                       = PassEntries(uri, parsed_document_map[uri])]_vars

\* the kind and the scope node the parent context of identifier node i asks
\* for, [declares |-> FALSE] where the context declares nothing
Declared(nodes, i) ==
    LET parent == nodes[i].parent
        p2 == IF parent = 0 THEN 0 ELSE nodes[parent].parent
        p3 == IF p2 = 0 THEN 0 ELSE nodes[p2].parent
    IN  IF parent = 0 THEN [declares |-> FALSE]
        ELSE IF nodes[parent].kind = "class_declaration"
             THEN [declares |-> TRUE, kind |-> "ClassName", scope |-> parent]
        ELSE IF nodes[parent].kind = "method_declaration"
             THEN [declares |-> TRUE, kind |-> "MethodName", scope |-> parent]
        ELSE IF /\ nodes[parent].kind = "variable_declarator"
                /\ p2 # 0 /\ nodes[p2].kind = "field_declaration"
                /\ p3 # 0 /\ nodes[p3].kind = "class_body"
             THEN [declares |-> TRUE, kind |-> "MemberVariable", scope |-> p3]
        ELSE IF /\ nodes[parent].kind = "formal_parameter"
                /\ p3 # 0 /\ nodes[p3].kind = "method_declaration"
             THEN [declares |-> TRUE, kind |-> "ParameterName", scope |-> p3]
        ELSE [declares |-> FALSE]

IdentifierNodes(nodes) == {i \in 1..Len(nodes) : nodes[i].kind = "identifier"}

\* C16: an identifier is recorded with the kind and the scope node its parent
\* context determines: class name under the class declaration, field under the
\* enclosing class body, method name and parameter under the method declaration.
C16_KindAndScopeByContext ==
    \A uri \in DOMAIN parsed_document_map :
        LET tree == parsed_document_map[uri]
            nodes == NodesOf(tree.text)
        IN  \A i \in IdentifierNodes(nodes) :
                Declared(nodes, i).declares =>
                    /\ \E e \in EntriesFor(uri, i) :
                          /\ e.token_type.kind = Declared(nodes, i).kind
                          /\ e.scope_id = NodeId(tree, Declared(nodes, i).scope)
                    /\ \A e \in EntriesFor(uri, i) :
                          /\ e.token_type.kind = Declared(nodes, i).kind
                          /\ \E slot \in Slots :
                                e.scope_id = slot * IdStride + Declared(nodes, i).scope

\* a stored document with a class, a field, a method and a parameter
C16_Witness ==
    /\ panicked = "no"
    /\ \E uri \in DOMAIN parsed_document_map :
          /\ parsed_document_map[uri].text = "Shadow"
          /\ Has(token_location_map, "value")
          /\ Len(token_location_map["value"]) >= 2

\* C17: an identifier in any other context is a use: no pass records an entry
\* with the token and the span of such an occurrence.
C17_UsesNotIndexed ==
    \A token \in DOMAIN token_location_map :
        \A k \in 1..Len(token_location_map[token]) :
            LET e == token_location_map[token][k]
            IN  ~ \E text \in Texts :
                    \E i \in IdentifierNodes(NodesOf(text)) :
                        /\ NodesOf(text)[i].text = token
                        /\ NodesOf(text)[i].start = e.start_position
                        /\ NodesOf(text)[i].end = e.end_position
                        /\ ~ Declared(NodesOf(text), i).declares

\* a stored document holding uses of f, x and value besides its declarations
C17_Witness ==
    \E uri \in DOMAIN parsed_document_map :
        /\ parsed_document_map[uri].text = "Calls"
        /\ Has(token_location_map, "f")
        /\ ~ Has(token_location_map, "x")

\* C19: answering a query changes neither the stored texts, nor the stored
\* trees, nor the index.
C19_QueryReadOnly ==
    [][Answered => UNCHANGED <<document_map, parsed_document_map,
                               token_location_map>>]_vars

\* a query that went through the lookup and the walk and found a definition
C19_Witness ==
    /\ response.tag = "reply"
    /\ response.result.tag = "location"
    /\ token_location_map # << >>

====
